---- MODULE Spec2Model ----
(***************************************************************************)
(* writeup-export: src/main.rs.                                            *)
(*                                                                         *)
(* process_input_folder walks the event folders of an input root and, for  *)
(* each, loads meta.toml, collects the challenge bodies, writes index.md   *)
(* and one page per challenge, and copies the assets.  Text is a sequence  *)
(* of one-character strings; a path is a sequence of file names.           *)
(***************************************************************************)
EXTENDS Naturals, Sequences, FiniteSets

VARIABLES
    files,       \* input tree: event folder name -> set of relative file paths
    descriptor,  \* event folder name -> what its meta.toml holds
    pc,          \* position in process_input_folder
    remaining,   \* folders read_dir has not yielded yet
    folder,      \* <<name>> of the folder of the current iteration, <<>> before
    ctf_meta,    \* <<parsed descriptor>> of the current folder, <<>> before
    challenges,  \* keys of the collected challenges of the current folder
    pagesLeft,   \* challenge pages the write loop has not written yet
    assets,      \* assets the copy loop has not copied yet
    dirs,        \* event directories that exist under the output root
    out,         \* output tree: event folder name -> (relative path -> content)
    processed,   \* event folders whose iteration ran to its end
    result,      \* "running", then what process_input_folder returns
    failures,    \* kinds of I/O failure that happened during the run
    faults,      \* number of injected I/O faults so far
    args,        \* arguments of the text function under check
    ret          \* its result

vars == <<files, descriptor, pc, remaining, folder, ctf_meta, challenges,
          pagesLeft, assets, dirs, out, processed, result, failures, faults,
          args, ret>>

runVars == <<files, descriptor, remaining, folder, ctf_meta, challenges,
             pagesLeft, assets, dirs, out, processed, result, failures, faults>>

(***************************************************************************)
(* Bounds.                                                                 *)
(***************************************************************************)
\* files in the whole input tree
MaxFiles == 4
\* injected I/O faults in one run
MaxFaults == 1

(***************************************************************************)
(* Names.                                                                  *)
(***************************************************************************)
E1 == <<"e", "1">>
E2 == <<"e", "2">>
DotGit == <<".", "g", "i", "t">>
GitDir == <<"x", ".", "g", "i", "t">>
Readme == <<"R">>
MetaToml == <<"m", "e", "t", "a", ".", "t", "o", "m", "l">>
IndexMd == <<"i", "n", "d", "e", "x", ".", "m", "d">>
DotMd == <<".", "m", "d">>
Md == <<"m", "d">>
KeyA == <<"a">>
KeyIndex == <<"i", "n", "d", "e", "x">>
Pic == <<"p", "i", "c">>
Sub == <<"s", "u", "b">>
XPng == <<"x", ".", "p", "n", "g">>

\* the entries of the input root: name and whether it is a directory
RootEntries ==
    { [name |-> E1, is_dir |-> TRUE], [name |-> E2, is_dir |-> TRUE],
      [name |-> GitDir, is_dir |-> TRUE], [name |-> Readme, is_dir |-> FALSE] }

Keys == {KeyA, KeyIndex}

\* the files an event folder may hold
FileUniverse ==
    { <<MetaToml>>, <<KeyA \o DotMd>>, <<KeyIndex \o DotMd>>, <<Pic>>,
      <<Sub, MetaToml>>, <<Sub, XPng>> }

(***************************************************************************)
(* Path and string helpers.                                                *)
(***************************************************************************)
\* str::contains
Contains(s, sub) ==
    \E i \in 0..(Len(s) - Len(sub)) : SubSeq(s, i + 1, i + Len(sub)) = sub

\* Path::file_name of a relative path
FileName(path) == path[Len(path)]

\* Path::extension: <<>> when the name has no dot after its first character,
\* else <<the text after the last dot>>
Extension(name) ==
    LET dotsAt == {i \in 2..Len(name) : name[i] = "."}
    IN  IF dotsAt = {} THEN <<>>
        ELSE LET last == CHOOSE i \in dotsAt : \A j \in dotsAt : j <= i
             IN  <<SubSeq(name, last + 1, Len(name))>>

\* the folders the loop of process_input_folder iterates over
Folders ==
    { x.name : x \in { y \in RootEntries : y.is_dir /\ ~Contains(y.name, DotGit) } }

\* the file <key>.md of a challenge, relative to the event folder
ChallengeFile(key) == <<key \o DotMd>>

\* toml::from_str(read_to_string(meta.toml)) succeeds
MetaLoads(e) == <<MetaToml>> \in files[e] /\ descriptor[e].wellformed

\* mutant: an unreadable body is kept as an empty one
Collected_KeepUnreadable(e, meta) == meta.challenges

\* the keys whose body read_to_string(..).ok()? keeps
Collected(e, meta) == { k \in meta.challenges : ChallengeFile(k) \in files[e] }

\* whether the asset walk keeps a file
IsAsset(path) ==
    /\ FileName(path) # MetaToml
    /\ Extension(FileName(path)) # <<Md>>

\* the files the asset walk collects, entries in dropped having failed
WalkAssets(e, dropped) == { p \in files[e] \ dropped : IsAsset(p) }

(***************************************************************************)
(* Output contents.                                                        *)
(***************************************************************************)
NoKey == <<>>
NoPath == <<>>
IndexContent(e) == [kind |-> "index", ev |-> e, key |-> NoKey, path |-> NoPath]
PageContent(e, k) == [kind |-> "page", ev |-> e, key |-> k, path |-> NoPath]
SourceBytes(e, p) == [kind |-> "bytes", ev |-> e, key |-> NoKey, path |-> p]

\* std::fs::write / std::fs::copy: create or replace the file at path
WriteFile(tree, e, path, content) ==
    [tree EXCEPT ![e] =
        [p \in (DOMAIN tree[e]) \cup {path} |->
            IF p = path THEN content ELSE tree[e][p]]]

(***************************************************************************)
(* The run.                                                                *)
(***************************************************************************)
Descriptors == [wellformed : BOOLEAN, challenges : SUBSET Keys]
NoDescriptor == [wellformed |-> FALSE, challenges |-> {}]
EmptyTree == [e \in Folders |-> <<>>]

TotalFiles(f) == Cardinality({ <<e, p>> \in Folders \X FileUniverse : p \in f[e] })

InitRun ==
    /\ files \in [Folders -> SUBSET FileUniverse]
    /\ TotalFiles(files) <= MaxFiles
    /\ descriptor \in [Folders -> Descriptors]
    /\ \A e \in Folders :
          \/ <<MetaToml>> \in files[e] /\ descriptor[e].wellformed
          \/ <<MetaToml>> \in files[e] /\ descriptor[e] = NoDescriptor
          \/ <<MetaToml>> \notin files[e] /\ descriptor[e] = NoDescriptor
    /\ pc = "read_dir"
    /\ remaining = {}
    /\ folder = <<>>
    /\ ctf_meta = <<>>
    /\ challenges = {}
    /\ pagesLeft = {}
    /\ assets = {}
    /\ dirs = {}
    /\ out = EmptyTree
    /\ processed = {}
    /\ result = "running"
    /\ failures = {}
    /\ faults = 0

Init == InitRun /\ args = <<>> /\ ret = <<>>

\* a `?` that returns the error
Abort(kind) ==
    /\ pc' = "done"
    /\ result' = "err"
    /\ failures' = failures \cup {kind}

CanFault == faults < MaxFaults

\* line 100: read_dir(input_folder)?
ReadDir ==
    /\ pc = "read_dir"
    /\ \/ /\ pc' = "iter"
          /\ remaining' = Folders
          /\ UNCHANGED <<result, failures, faults>>
       \/ /\ CanFault
          /\ faults' = faults + 1
          /\ Abort("read_dir")
          /\ UNCHANGED remaining
    /\ UNCHANGED <<files, descriptor, folder, ctf_meta, challenges, pagesLeft,
                   assets, dirs, out, processed, args, ret>>

\* line 101: .flatten() drops an entry that read_dir yields as an error
DropEntry ==
    /\ pc = "iter"
    /\ CanFault
    /\ \E e \in remaining :
          /\ remaining' = remaining \ {e}
          /\ faults' = faults + 1
          /\ failures' = failures \cup {"read_dir_entry"}
    /\ UNCHANGED <<files, descriptor, pc, folder, ctf_meta, challenges,
                   pagesLeft, assets, dirs, out, processed, result, args, ret>>

\* mutant: the output directory is created before the descriptor is loaded
NextFolder_CreatesDir ==
    /\ pc = "iter"
    /\ \E e \in remaining :
          /\ remaining' = remaining \ {e}
          /\ folder' = <<e>>
          /\ dirs' = dirs \cup {e}
    /\ ctf_meta' = <<>>
    /\ challenges' = {}
    /\ pagesLeft' = {}
    /\ assets' = {}
    /\ pc' = "load"
    /\ UNCHANGED <<files, descriptor, out, processed, result, failures,
                   faults, args, ret>>

\* lines 100-107: the loop takes the next folder, in the order read_dir gives
NextFolder ==
    /\ pc = "iter"
    /\ \E e \in remaining :
          /\ remaining' = remaining \ {e}
          /\ folder' = <<e>>
    /\ ctf_meta' = <<>>
    /\ challenges' = {}
    /\ pagesLeft' = {}
    /\ assets' = {}
    /\ pc' = "load"
    /\ UNCHANGED <<files, descriptor, dirs, out, processed, result, failures,
                   faults, args, ret>>

\* lines 109-110: read and parse meta.toml, `?` on both
LoadMeta ==
    /\ pc = "load"
    /\ IF MetaLoads(folder[1])
       THEN /\ ctf_meta' = <<descriptor[folder[1]]>>
            /\ pc' = "collect"
            /\ UNCHANGED <<result, failures>>
       ELSE /\ Abort("meta")
            /\ UNCHANGED ctf_meta
    /\ UNCHANGED <<files, descriptor, remaining, folder, challenges, pagesLeft,
                   assets, dirs, out, processed, faults, args, ret>>

\* lines 112-176: collect the challenges and compose the pages (no I/O effect)
Collect ==
    /\ pc = "collect"
    /\ challenges' = Collected(folder[1], ctf_meta[1])
    /\ pc' = "create_dir"
    /\ UNCHANGED <<files, descriptor, remaining, folder, ctf_meta, pagesLeft,
                   assets, dirs, out, processed, result, failures, faults,
                   args, ret>>

\* lines 178-183: create_dir(section_path), its Result dropped
CreateDir ==
    /\ pc = "create_dir"
    /\ \/ /\ dirs' = dirs \cup {folder[1]}
          /\ UNCHANGED <<failures, faults>>
       \/ /\ CanFault
          /\ faults' = faults + 1
          /\ failures' = failures \cup {"create_dir"}
          /\ UNCHANGED dirs
    /\ pc' = "write_index"
    /\ UNCHANGED <<files, descriptor, remaining, folder, ctf_meta, challenges,
                   pagesLeft, assets, out, processed, result, args, ret>>

\* line 185: write(section_path/index.md, index_page)?
WriteIndex ==
    /\ pc = "write_index"
    /\ \/ /\ folder[1] \in dirs
          /\ out' = WriteFile(out, folder[1], <<IndexMd>>, IndexContent(folder[1]))
          /\ pagesLeft' = challenges
          /\ pc' = "write_pages"
          /\ UNCHANGED <<result, failures, faults>>
       \/ /\ folder[1] \notin dirs
          /\ Abort("write")
          /\ UNCHANGED <<out, pagesLeft, faults>>
       \/ /\ folder[1] \in dirs
          /\ CanFault
          /\ faults' = faults + 1
          /\ Abort("write")
          /\ UNCHANGED <<out, pagesLeft>>
    /\ UNCHANGED <<files, descriptor, remaining, folder, ctf_meta, challenges,
                   assets, dirs, processed, args, ret>>

\* lines 186-189: write(section_path/<name>.md, content)? for the next page
WritePage ==
    /\ pc = "write_pages"
    /\ \E k \in pagesLeft :
          \/ /\ out' = WriteFile(out, folder[1], ChallengeFile(k),
                                 PageContent(folder[1], k))
             /\ pagesLeft' = pagesLeft \ {k}
             /\ UNCHANGED <<pc, result, failures, faults>>
          \/ /\ CanFault
             /\ faults' = faults + 1
             /\ Abort("write")
             /\ UNCHANGED <<out, pagesLeft>>
    /\ UNCHANGED <<files, descriptor, remaining, folder, ctf_meta, challenges,
                   assets, dirs, processed, args, ret>>

\* lines 191-208: walk the event folder; filter_map(Result::ok) drops the
\* entries that failed
Walk ==
    /\ pc = "write_pages"
    /\ pagesLeft = {}
    /\ \/ /\ assets' = WalkAssets(folder[1], {})
          /\ UNCHANGED <<failures, faults>>
       \/ /\ CanFault
          /\ \E p \in files[folder[1]] :
                assets' = WalkAssets(folder[1], {p})
          /\ faults' = faults + 1
          /\ failures' = failures \cup {"walk_entry"}
    /\ pc' = "copy"
    /\ UNCHANGED <<files, descriptor, remaining, folder, ctf_meta, challenges,
                   pagesLeft, dirs, out, processed, result, args, ret>>

\* lines 210-216: create_dir_all(parent)? and copy(asset, output_path)?
CopyAsset ==
    /\ pc = "copy"
    /\ \E a \in assets :
          \/ /\ out' = WriteFile(out, folder[1], a, SourceBytes(folder[1], a))
             /\ assets' = assets \ {a}
             /\ UNCHANGED <<pc, result, failures, faults>>
          \/ /\ CanFault
             /\ faults' = faults + 1
             /\ Abort("copy")
             /\ UNCHANGED <<out, assets>>
    /\ UNCHANGED <<files, descriptor, remaining, folder, ctf_meta, challenges,
                   pagesLeft, dirs, processed, args, ret>>

\* line 217: the iteration ends
EndFolder ==
    /\ pc = "copy"
    /\ assets = {}
    /\ processed' = processed \cup {folder[1]}
    /\ pc' = "iter"
    /\ UNCHANGED <<files, descriptor, remaining, folder, ctf_meta, challenges,
                   pagesLeft, assets, dirs, out, result, failures, faults,
                   args, ret>>

\* line 218: Ok(())
ReturnOk ==
    /\ pc = "iter"
    /\ remaining = {}
    /\ result' = "ok"
    /\ pc' = "done"
    /\ UNCHANGED <<files, descriptor, remaining, folder, ctf_meta, challenges,
                   pagesLeft, assets, dirs, out, processed, failures, faults,
                   args, ret>>

Next ==
    \/ ReadDir
    \/ DropEntry
    \/ NextFolder
    \/ LoadMeta
    \/ Collect
    \/ CreateDir
    \/ WriteIndex
    \/ WritePage
    \/ Walk
    \/ CopyAsset
    \/ EndFolder
    \/ ReturnOk

Spec == Init /\ [][Next]_vars

(***************************************************************************)
(* Claims about the run.                                                   *)
(***************************************************************************)
\* meta.toml of e is present and well formed
DescriptorValid(e) == <<MetaToml>> \in files[e] /\ descriptor[e].wellformed

\* <key>.md of e can be read
BodyReadable(e, k) == <<k \o DotMd>> \in files[e]

\* the files of e the specification calls assets
SpecAssets(e) ==
    { p \in files[e] : p # <<MetaToml>> /\ Extension(FileName(p)) # <<Md>> }

\* the paths under the output folder of e that hold a challenge page
PageFiles(e) == { p \in DOMAIN out[e] : out[e][p].kind = "page" }

\* e has its index page, its challenge pages and its assets in the output
EventWritten(e) ==
    /\ <<IndexMd>> \in DOMAIN out[e]
    /\ \A k \in descriptor[e].challenges :
          BodyReadable(e, k) => <<k \o DotMd>> \in DOMAIN out[e]
    /\ \A p \in SpecAssets(e) : p \in DOMAIN out[e]

\* C1: when the run has ended and no I/O fault was injected, every event
\* folder whose descriptor is valid has its index page, challenge pages and
\* assets written, whatever the other folders hold and whatever the order.
C1_PerEventIsolation ==
    (pc = "done" /\ faults = 0) =>
        \A e \in Folders : DescriptorValid(e) => EventWritten(e)

\* C2: for every event processed to its end, the challenge page files
\* written are exactly one per key with a readable body, at <key>.md, and a
\* key with an unreadable body has no page.
C2_PagePerReadableKey ==
    \A e \in processed :
        /\ Cardinality(PageFiles(e)) =
              Cardinality({ k \in descriptor[e].challenges : BodyReadable(e, k) })
        /\ \A k \in descriptor[e].challenges :
              IF BodyReadable(e, k)
              THEN /\ <<k \o DotMd>> \in DOMAIN out[e]
                   /\ out[e][<<k \o DotMd>>] = PageContent(e, k)
                   /\ \A p \in PageFiles(e) : out[e][p].key = k => p = <<k \o DotMd>>
              ELSE \A p \in PageFiles(e) : out[e][p].key # k

\* C2 witness: a processed event with one readable and one unreadable key
C2_Witness ==
    \E e \in processed :
        \E k1, k2 \in descriptor[e].challenges :
            BodyReadable(e, k1) /\ ~BodyReadable(e, k2)

\* C5: after an event is processed with no failure in the run, every file
\* under it that is neither <event>/meta.toml nor a .md file is in the output
\* at the same relative path with the same bytes, and no descriptor or .md
\* file is copied.
C5_AssetMirroring ==
    failures = {} =>
        \A e \in processed :
            /\ \A p \in SpecAssets(e) :
                  p \in DOMAIN out[e] /\ out[e][p] = SourceBytes(e, p)
            /\ \A p \in DOMAIN out[e] :
                  out[e][p].kind = "bytes" => p \in SpecAssets(e)

\* C8: after an event is processed, index.md holds the index page and every
\* collected challenge has its own page file, so the folder holds one index
\* page plus one page per collected challenge.
C8_IndexPageKept ==
    \A e \in processed :
        /\ <<IndexMd>> \in DOMAIN out[e]
        /\ out[e][<<IndexMd>>] = IndexContent(e)
        /\ Cardinality({ p \in DOMAIN out[e] : out[e][p].kind \in {"index", "page"} })
              = 1 + Cardinality({ k \in descriptor[e].challenges : BodyReadable(e, k) })

\* C9: a run in which a directory creation, directory enumeration, page
\* write or asset copy failed does not return success.
C9_NoSwallowedFailure == result = "ok" => failures = {}

\* C10: nothing exists under the output folder of an event before its
\* meta.toml has been read and parsed; an event whose descriptor is missing
\* or malformed has nothing in the output.
C10_LoadBeforeWrite ==
    \A e \in Folders :
        (e \in dirs \/ DOMAIN out[e] # {}) =>
            /\ DescriptorValid(e)
            /\ e \in processed \/ (folder = <<e>> /\ ctf_meta # <<>>)

\* C10 witness: the run stopped at an event whose descriptor does not load,
\* with nothing written for it, after another event was written
C10_Witness ==
    /\ pc = "done"
    /\ folder # <<>>
    /\ ~DescriptorValid(folder[1])
    /\ folder[1] \notin dirs
    /\ DOMAIN out[folder[1]] = {}
    /\ processed # {}

(***************************************************************************)
(* Text functions.                                                         *)
(***************************************************************************)
Zola == "Zola"
Hugo == "Hugo"

\* the literal pieces of the format strings of make_front_matter
FmTitle == <<"+", "+", "+", "\n", "t", "i", "t", "l", "e", "=", "\"">>
FmDate == <<"\"", "\n", "d", "a", "t", "e", " ", "=", " ">>
ZolaTags ==
    <<"\n", "\n", "[", "t", "a", "x", "o", "n", "o", "m", "i", "e", "s", "]",
      "\n", "t", "a", "g", "s", " ", "=", " ", "[">>
ZolaEnd == <<"]", "\n", "+", "+", "+", "\n", "\n", "\n">>
HugoTags == <<"\n", "t", "a", "g", "s", " ", "=", " ", "[">>
HugoAuthors ==
    <<"]", "\n", "a", "u", "t", "h", "o", "r", "s", " ", "=", " ", "[">>
HugoEnd ==
    <<"]", "\n", "l", "a", "y", "o", "u", "t", " ", "=", " ", "\"", "p", "o",
      "s", "t", "\"", "\n", "+", "+", "+", "\n", "\n", "\n">>
CtfWriteups == <<"c", "t", "f", "-", "w", "r", "i", "t", "e", "u", "p", "s">>
MoreMarker ==
    <<"\n", "<", "!", "-", "-", " ", "m", "o", "r", "e", " ", "-", "-", ">",
      "\n">>
LowerCase ==
    <<"a", "b", "c", "d", "e", "f", "g", "h", "i", "j", "k", "l", "m", "n",
      "o", "p", "q", "r", "s", "t", "u", "v", "w", "x", "y", "z">>
UpperCase ==
    <<"A", "B", "C", "D", "E", "F", "G", "H", "I", "J", "K", "L", "M", "N",
      "O", "P", "Q", "R", "S", "T", "U", "V", "W", "X", "Y", "Z">>
Digits == <<"0", "1", "2", "3", "4", "5", "6", "7", "8", "9">>

\* the run variables while a text function is checked on its own
IdleRun ==
    /\ files = [e \in Folders |-> {}]
    /\ descriptor = [e \in Folders |-> NoDescriptor]
    /\ remaining = {}
    /\ folder = <<>>
    /\ ctf_meta = <<>>
    /\ challenges = {}
    /\ pagesLeft = {}
    /\ assets = {}
    /\ dirs = {}
    /\ out = EmptyTree
    /\ processed = {}
    /\ result = "running"
    /\ failures = {}
    /\ faults = 0

\* the sequences over S of length at most n
Lists(S, n) == UNION { [1..k -> S] : k \in 0..n }

RECURSIVE Concat(_)
\* the texts of a sequence, one after the other
Concat(ss) == IF Len(ss) = 0 THEN <<>> ELSE Head(ss) \o Concat(Tail(ss))

RECURSIVE Join(_, _)
\* [String]::join
Join(ss, sep) ==
    IF Len(ss) = 0 THEN <<>>
    ELSE IF Len(ss) = 1 THEN ss[1]
    ELSE ss[1] \o sep \o Join(Tail(ss), sep)

\* char::escape_debug as <str as Debug>::fmt uses it
EscapeDebug(c) ==
    CASE c = "\"" -> <<"\\", "\"">>
      [] c = "\\" -> <<"\\", "\\">>
      [] c = "\n" -> <<"\\", "n">>
      [] c = "\r" -> <<"\\", "r">>
      [] c = "\t" -> <<"\\", "t">>
      [] OTHER -> <<c>>

\* mutant: the string is formatted with {} between quotes
DebugStr_Display(s) == <<"\"">> \o s \o <<"\"">>

\* format!("{:?}", x.as_ref())
DebugStr(s) ==
    <<"\"">> \o Concat([i \in 1..Len(s) |-> EscapeDebug(s[i])]) \o <<"\"">>

\* .map(|x| format!("{:?}", x.as_ref())).collect::<Vec<_>>().join(",")
DebugList(xs) == Join([i \in 1..Len(xs) |-> DebugStr(xs[i])], <<",">>)

make_front_matter(name, date, tags, authors, output_type) ==
    IF output_type = Zola
    THEN FmTitle \o name \o FmDate \o date \o ZolaTags \o DebugList(tags)
            \o ZolaEnd
    ELSE FmTitle \o name \o FmDate \o date \o HugoTags \o DebugList(tags)
            \o HugoAuthors \o DebugList(authors) \o HugoEnd

(***************************************************************************)
(* make_front_matter on its own.                                           *)
(***************************************************************************)
\* tags in one list
MaxTags == 2
\* authors in one list
MaxAuthors == 1

TagStrings ==
    { <<>>, <<"a">>, <<"\"">>, <<"a", "\"">>, <<"\\">>, <<"\n">> }
Titles == { <<"t">>, <<"t", "\"">> }
Date == <<"2", "0", "2", "2", "-", "0", "1", "-", "0", "7">>

InitFrontMatter ==
    /\ IdleRun
    /\ pc = "call"
    /\ args \in [name : Titles, date : {Date},
                 tags : Lists(TagStrings, MaxTags),
                 authors : Lists(TagStrings, MaxAuthors),
                 output_type : {Zola, Hugo}]
    /\ ret = <<>>

\* lines 45-80: make_front_matter(name, date, tags, authors, output_type)
MakeFrontMatter ==
    /\ pc = "call"
    /\ ret' = make_front_matter(args.name, args.date, args.tags, args.authors,
                                args.output_type)
    /\ pc' = "returned"
    /\ UNCHANGED <<runVars, args>>

NextFrontMatter == MakeFrontMatter

SpecFrontMatter == InitFrontMatter /\ [][NextFrontMatter]_vars

\* a front matter whose lists are the texts tagList and authorList
FrontMatterWith(tagList, authorList) ==
    IF args.output_type = Zola
    THEN FmTitle \o args.name \o FmDate \o args.date \o ZolaTags \o tagList
            \o ZolaEnd
    ELSE FmTitle \o args.name \o FmDate \o args.date \o HugoTags \o tagList
            \o HugoAuthors \o authorList \o HugoEnd

\* the strings of xs, each between double quotes, joined by commas
VerbatimList(xs) ==
    Join([i \in 1..Len(xs) |-> <<"\"">> \o xs[i] \o <<"\"">>], <<",">>)

\* a string with a backslash before each double quote and backslash, and a
\* newline as backslash n
Escaped(s) ==
    Concat([i \in 1..Len(s) |->
        IF s[i] \in {"\"", "\\"} THEN <<"\\", s[i]>>
        ELSE IF s[i] = "\n" THEN <<"\\", "n">>
        ELSE <<s[i]>>])

\* the strings of xs, escaped, each between double quotes, joined by commas
EscapedList(xs) ==
    Join([i \in 1..Len(xs) |-> <<"\"">> \o Escaped(xs[i]) \o <<"\"">>], <<",">>)

\* C7 as stated: the tags list (and the Hugo authors list) is each string's
\* characters verbatim between double quotes, comma-joined in input order,
\* empty for an empty input, with embedded double quotes not escaped; the
\* Zola output does not depend on authors.
C7_ListsVerbatim ==
    pc = "returned" =>
        ret = FrontMatterWith(VerbatimList(args.tags), VerbatimList(args.authors))

\* C7 amended: the tags list (and the Hugo authors list) is each string
\* between double quotes with embedded double quotes and backslashes
\* backslash-escaped, comma-joined in input order, empty for an empty input;
\* the Zola output does not depend on authors.
C7_ListsDebugQuoted ==
    pc = "returned" =>
        ret = FrontMatterWith(EscapedList(args.tags), EscapedList(args.authors))

\* C7 witness: a Hugo front matter was made from two tags, one holding a
\* double quote, and an author
C7_Witness ==
    /\ pc = "returned"
    /\ args.output_type = Hugo
    /\ Len(args.tags) = 2
    /\ \E i \in 1..Len(args.tags) : Contains(args.tags[i], <<"\"">>)
    /\ Len(args.authors) = 1

(***************************************************************************)
(* Link rewriting: url_regex.replace_all(content, "[$1](/<prefix>$2)").    *)
(***************************************************************************)
\* segments in one body
MaxSegments == 3

\* [0-9A-Za-z_], the characters of a capture group name
IsWordChar(c) ==
    \/ \E i \in 1..Len(LowerCase) : LowerCase[i] = c
    \/ \E i \in 1..Len(UpperCase) : UpperCase[i] = c
    \/ \E i \in 1..Len(Digits) : Digits[i] = c
    \/ c = "_"

IsDigit(c) == \E i \in 1..Len(Digits) : Digits[i] = c

DigitValue(c) == (CHOOSE i \in 1..Len(Digits) : Digits[i] = c) - 1

RECURSIVE ParseNumber(_)
\* str::parse::<usize> of a text of digits
ParseNumber(s) ==
    IF Len(s) = 0 THEN 0
    ELSE 10 * ParseNumber(SubSeq(s, 1, Len(s) - 1)) + DigitValue(s[Len(s)])

\* the matches of \[(.*?)\]\(/(.*?)\) that begin at i: <<j, k>> with "](/"
\* at j and ")" at k, the dot matching no newline
MatchesAt(s, i) ==
    IF s[i] # "[" THEN {}
    ELSE { <<j, k>> \in (i + 1..Len(s)) \X (i + 4..Len(s)) :
             /\ j + 3 <= k
             /\ SubSeq(s, j, j + 2) = <<"]", "(", "/">>
             /\ s[k] = ")"
             /\ \A m \in (i + 1..j - 1) \cup (j + 3..k - 1) : s[m] # "\n" }

\* the match the regex takes at i: both groups lazy, the first decided first
MatchAt(s, i) ==
    LET ms == MatchesAt(s, i)
        j == CHOOSE x \in { m[1] : m \in ms } : \A m \in ms : x <= m[1]
        k == CHOOSE x \in { m[2] : m \in { n \in ms : n[1] = j } } :
                \A m \in { n \in ms : n[1] = j } : x <= m[2]
    IN  [start |-> i, close |-> j, end |-> k,
         groups |-> << SubSeq(s, i + 1, j - 1), SubSeq(s, j + 3, k - 1) >>]

RECURSIVE Expand(_, _, _)
\* Captures::expand: $$ is a dollar, $name the group of that number (empty
\* when there is none, or when the name is no number), any other $ is kept.
\* The text has no '{', so the ${name} form does not occur.
Expand(t, caps, whole) ==
    IF Len(t) = 0 THEN <<>>
    ELSE IF t[1] # "$" THEN <<t[1]>> \o Expand(Tail(t), caps, whole)
    ELSE IF Len(t) >= 2 /\ t[2] = "$"
         THEN <<"$">> \o Expand(SubSeq(t, 3, Len(t)), caps, whole)
    ELSE LET ends == { n \in 1..Len(t) :
                         /\ \A m \in 2..n : IsWordChar(t[m])
                         /\ n = Len(t) \/ ~IsWordChar(t[n + 1]) }
             n == CHOOSE x \in ends : TRUE
             name == SubSeq(t, 2, n)
             rest == SubSeq(t, n + 1, Len(t))
             value ==
                 IF \A m \in 1..Len(name) : IsDigit(name[m])
                 THEN LET g == ParseNumber(name)
                      IN  IF g = 0 THEN whole
                          ELSE IF g <= Len(caps) THEN caps[g]
                          ELSE <<>>
                 ELSE <<>>
         IN  IF Len(name) = 0
             THEN <<"$">> \o Expand(Tail(t), caps, whole)
             ELSE value \o Expand(rest, caps, whole)

RECURSIVE ReplaceAll(_, _, _)
\* Regex::replace_all from position from on: leftmost matches, not overlapping
ReplaceAll(s, from, template) ==
    LET starts == { i \in from..Len(s) : MatchesAt(s, i) # {} }
    IN  IF starts = {} THEN SubSeq(s, from, Len(s))
        ELSE LET i == CHOOSE x \in starts : \A y \in starts : x <= y
                 m == MatchAt(s, i)
             IN  SubSeq(s, from, i - 1)
                    \o Expand(template, m.groups, SubSeq(s, m.start, m.end))
                    \o ReplaceAll(s, m.end + 1, template)

\* format!("[$1](/{}$2)", prefix.as_ref())
Template(prefix) ==
    <<"[", "$", "1", "]", "(", "/">> \o prefix \o <<"$", "2", ")">>

\* lines 120-131: the body with the prefix put into its links, or as it is
RewriteUrls(content, rewrite_url_prefix) ==
    IF rewrite_url_prefix # <<>>
    THEN ReplaceAll(content, 1, Template(rewrite_url_prefix[1]))
    ELSE content

\* what a body is made of: links with a root-relative target, other links,
\* text, line ends
Segments ==
    { [kind |-> "root", label |-> <<"l">>, target |-> <<"t">>],
      [kind |-> "link", label |-> <<"l">>, target |-> <<"t">>],
      [kind |-> "text", label |-> <<"x">>, target |-> <<>>],
      [kind |-> "text", label |-> <<"\n">>, target |-> <<>>] }

\* a segment as Markdown
SegmentText(g) ==
    CASE g.kind = "root" -> <<"[">> \o g.label \o <<"]", "(", "/">> \o g.target \o <<")">>
      [] g.kind = "link" -> <<"[">> \o g.label \o <<"]", "(">> \o g.target \o <<")">>
      [] OTHER -> g.label

BodyText(segs) == Concat([i \in 1..Len(segs) |-> SegmentText(segs[i])])

\* the prefixes of a run: none, or one of these texts
Prefixes == { <<"p", "/">>, <<>>, <<"p">>, <<"$", "1">>, <<"p", "$">> }

InitRewrite ==
    /\ IdleRun
    /\ pc = "call"
    /\ args \in [body : Lists(Segments, MaxSegments),
                 rewrite_url_prefix : {<<>>} \cup { <<p>> : p \in Prefixes }]
    /\ ret = <<>>

\* lines 120-131 on one body
Rewrite ==
    /\ pc = "call"
    /\ ret' = RewriteUrls(BodyText(args.body), args.rewrite_url_prefix)
    /\ pc' = "returned"
    /\ UNCHANGED <<runVars, args>>

NextRewrite == Rewrite

SpecRewrite == InitRewrite /\ [][NextRewrite]_vars

\* a segment with prefix P put after the slash of a root-relative target
SegmentWithPrefix(g, P) ==
    IF g.kind = "root"
    THEN <<"[">> \o g.label \o <<"]", "(", "/">> \o P \o g.target \o <<")">>
    ELSE SegmentText(g)

\* C4: with no prefix the body is unchanged; with prefix P every link
\* [L](/T) becomes [L](/PT) and every other link and all other text is
\* unchanged, for every body and every prefix.
C4_LinksRewritten ==
    pc = "returned" =>
        ret = IF args.rewrite_url_prefix = <<>>
              THEN BodyText(args.body)
              ELSE Concat([i \in 1..Len(args.body) |->
                      SegmentWithPrefix(args.body[i], args.rewrite_url_prefix[1])])

\* the same for the prefixes that hold no dollar sign
C4_LinksRewrittenNoDollar ==
    (pc = "returned" /\ args.rewrite_url_prefix # <<>>
        /\ ~Contains(args.rewrite_url_prefix[1], <<"$">>)) => C4_LinksRewritten

(***************************************************************************)
(* The index page and the challenge pages of one event.                    *)
(***************************************************************************)
\* lines in one challenge body
MaxLines == 2

RECURSIVE Replace(_, _, _)
\* str::replace: every match of from, left to right, not overlapping
Replace(s, from, to) ==
    IF Len(s) < Len(from) THEN s
    ELSE IF SubSeq(s, 1, Len(from)) = from
         THEN to \o Replace(SubSeq(s, Len(from) + 1, Len(s)), from, to)
         ELSE <<s[1]>> \o Replace(Tail(s), from, to)

\* char::to_lowercase on ASCII
Lower(c) ==
    IF \E i \in 1..Len(UpperCase) : UpperCase[i] = c
    THEN LowerCase[CHOOSE i \in 1..Len(UpperCase) : UpperCase[i] = c]
    ELSE c

RECURSIVE SlugChars(_, _)
\* the slug crate on ASCII: letters lowered, letters and digits kept, every
\* run of other characters one '-', none at the start
SlugChars(s, prevDash) ==
    IF Len(s) = 0 THEN <<>>
    ELSE LET c == Lower(s[1])
         IN  IF IsWordChar(c) /\ c # "_"
             THEN <<c>> \o SlugChars(Tail(s), FALSE)
             ELSE IF prevDash THEN SlugChars(Tail(s), TRUE)
                  ELSE <<"-">> \o SlugChars(Tail(s), TRUE)

\* slug::slugify(name): no '-' at the end either
slugify(s) ==
    LET t == SlugChars(s, TRUE)
    IN  IF Len(t) > 0 /\ t[Len(t)] = "-" THEN SubSeq(t, 1, Len(t) - 1) ELSE t

\* lines 149-153: "# [{}](/{}/{})\n"
IndexHeading(cname, event, key) ==
    <<"#", " ", "[">> \o cname \o <<"]", "(", "/">> \o event \o <<"/">>
        \o slugify(key) \o <<")", "\n">>

\* line 154: b.replace("\n#", "\n##")
Demote(b) == Replace(b, <<"\n", "#">>, <<"\n", "#", "#">>)

\* lines 148-156: what the index page holds for one collected challenge
IndexSection(c, event) == IndexHeading(c.name, event, c.key) \o Demote(c.body)

\* lines 134-159: index_page
IndexPage(a) ==
    make_front_matter(a.name, a.date, <<CtfWriteups>>, a.authors, a.output_type)
        \o (IF a.description # <<>> THEN a.description[1] \o MoreMarker ELSE <<>>)
        \o Join([i \in 1..Len(a.challenges) |->
                    IndexSection(a.challenges[i], a.event)], <<"\n">>)

\* lines 161-176: the page of one collected challenge
ChallengePage(c, a) ==
    make_front_matter(c.name, a.date, c.tags, a.authors, a.output_type) \o c.body

\* the lines a body may hold
BodyLines ==
    { <<"#", " ", "h">>, <<"#", "#", " ", "h">>, <<"t">>, <<"#", "t">> }

\* the bodies: one to MaxLines lines, joined by line ends
Bodies == { Join(ls, <<"\n">>) : ls \in Lists(BodyLines, MaxLines) \ {<<>>} }

\* the descriptor entries of the challenges, in the order of the page
ChallengeEntries ==
    << [key |-> KeyA, name |-> <<"n">>, tags |-> <<<<"g">>>>],
       [key |-> <<"B", " ", "c">>, name |-> <<"N", "2">>, tags |-> <<>>] >>

\* the collected challenges: the first n entries, each with a body
CollectedLists ==
    UNION { { [i \in 1..n |->
                 [key |-> ChallengeEntries[i].key, name |-> ChallengeEntries[i].name,
                  tags |-> ChallengeEntries[i].tags, body |-> bs[i]]] :
              bs \in [1..n -> Bodies] } : n \in 0..Len(ChallengeEntries) }

InitIndex ==
    /\ IdleRun
    /\ pc = "call"
    /\ args \in [name : {<<"T">>}, date : {Date},
                 description : {<<>>, <<<<"d">>>>},
                 authors : {<<<<"s">>>>},
                 output_type : {Zola, Hugo},
                 event : {E1},
                 challenges : CollectedLists]
    /\ ret = <<>>

\* lines 134-176: compose the index page and the challenge pages
Compose ==
    /\ pc = "call"
    /\ ret' = [index_page |-> IndexPage(args),
               sections |-> [i \in 1..Len(args.challenges) |->
                                IndexSection(args.challenges[i], args.event)],
               challenge_pages |-> [i \in 1..Len(args.challenges) |->
                                ChallengePage(args.challenges[i], args)]]
    /\ pc' = "returned"
    /\ UNCHANGED <<runVars, args>>

NextIndex == Compose

SpecIndex == InitIndex /\ [][NextIndex]_vars

RECURSIVE SplitLines(_)
\* the lines of a text, split at its line ends
SplitLines(s) ==
    LET ends == { i \in 1..Len(s) : s[i] = "\n" }
    IN  IF ends = {} THEN <<s>>
        ELSE LET i == CHOOSE x \in ends : \A y \in ends : x <= y
             IN  <<SubSeq(s, 1, i - 1)>> \o SplitLines(SubSeq(s, i + 1, Len(s)))

\* a Markdown heading line: one or more '#', then a space or the end
IsHeadingLine(l) ==
    \E n \in 1..Len(l) :
        /\ \A m \in 1..n : l[m] = "#"
        /\ n = Len(l) \/ l[n + 1] = " "

\* the body of challenge i as its own page renders it
PageBodyLines(i) ==
    LET page == ret.challenge_pages[i]
        n == Len(args.challenges[i].body)
    IN  SplitLines(SubSeq(page, Len(page) - n + 1, Len(page)))

\* the body of challenge i as the index page renders it, under its heading
IndexBodyLines(i) == Tail(SplitLines(ret.sections[i]))

\* C3: every heading line of a collected body, the first line included, has
\* exactly one more '#' in the index page than in the challenge page, and
\* every other line is the same in both.
C3_HeadingsDemoted ==
    pc = "returned" =>
        \A i \in 1..Len(args.challenges) :
            /\ Len(IndexBodyLines(i)) = Len(PageBodyLines(i))
            /\ \A n \in 1..Len(PageBodyLines(i)) :
                  IndexBodyLines(i)[n] =
                      IF IsHeadingLine(PageBodyLines(i)[n])
                      THEN <<"#">> \o PageBodyLines(i)[n]
                      ELSE PageBodyLines(i)[n]

\* C6: with no description and the Zola dialect the index page is the event
\* front matter (title, date, tags = ["ctf-writeups"]) and then, for each
\* collected challenge, '# ' and its display name, a line end and its body.
C6_IndexPageAsTested ==
    (pc = "returned" /\ args.description = <<>> /\ args.output_type = Zola) =>
        ret.index_page =
            FmTitle \o args.name \o FmDate \o args.date \o ZolaTags
                \o <<"\"">> \o CtfWriteups \o <<"\"">> \o ZolaEnd
                \o Join([i \in 1..Len(args.challenges) |->
                            <<"#", " ">> \o args.challenges[i].name \o <<"\n">>
                                \o args.challenges[i].body], <<"\n">>)

====
